---- MODULE Spec2Model ----
(***************************************************************************)
(* The minimap widget of packages/excalidraw/components/Minimap.tsx and    *)
(* the toggleMinimap action, as a state machine.                           *)
(*                                                                         *)
(* Minimap.tsx holds two definitions of the component: the first (lines    *)
(* 27-479) reads showMinimap and minimapPosition from the host state and   *)
(* has a header drag handle; the second (lines 519-964) takes isVisible    *)
(* as a prop.  The variable def says which one is mounted.                 *)
(*                                                                         *)
(* JavaScript numbers are modelled as exact rationals <<n, d>>; d = 0 is   *)
(* +Infinity (150 / 0).  Floating-point rounding is not modelled.          *)
(***************************************************************************)
EXTENDS Integers, Sequences, FiniteSets, TLC

----------------------------------------------------------------------------
(* Rational arithmetic: the JavaScript number operations the code uses.    *)

Abs(n) == IF n < 0 THEN -n ELSE n

RECURSIVE GCD(_, _)
GCD(a, b) == IF b = 0 THEN a ELSE GCD(b, a % b)

\* n / d in lowest terms with a non-negative denominator; x / 0 (x > 0) is +Infinity
Norm(n, d) ==
  IF d = 0 THEN <<1, 0>>
  ELSE LET g == GCD(Abs(n), Abs(d))
           s == IF d < 0 THEN -1 ELSE 1
       IN  <<s * (n \div g), s * (d \div g)>>

Q(n) == <<n, 1>>

RAdd(a, b) == Norm(a[1] * b[2] + b[1] * a[2], a[2] * b[2])
RNeg(a) == <<-a[1], a[2]>>
RSub(a, b) == RAdd(a, RNeg(b))
RMul(a, b) == Norm(a[1] * b[1], a[2] * b[2])
RDiv(a, b) == Norm(a[1] * b[2], a[2] * b[1])
RLe(a, b) == a[1] * b[2] <= b[1] * a[2]
RLt(a, b) == a[1] * b[2] < b[1] * a[2]
RMin(a, b) == IF RLe(a, b) THEN a ELSE b
RMax(a, b) == IF RLe(a, b) THEN b ELSE a

IMin(a, b) == IF a <= b THEN a ELSE b
IMax(a, b) == IF a <= b THEN b ELSE a

----------------------------------------------------------------------------
(* Program constants                                                       *)

MINIMAP_SIZE == 150
DEBOUNCE_DELAY == 300

(* Bounds of the model                                                     *)

\* pointer-move and host scrolls are enumerated while |scroll| stays within this
MaxScroll == 400
\* exports in flight at one time
MaxInFlight == 2
\* document listener pairs registered at one time
MaxListeners == 2
\* milliseconds that pass in one step of the clock
TickMs == 150

----------------------------------------------------------------------------
(* The element collections the host can hold, by the result of
   getCommonBounds on each: <<minX, minY, maxX, maxY>>.  Collection 1 is the
   empty one. *)

EmptyScene == 1
SceneBoundsOf ==
  << <<0, 0, 0, 0>>,         \* 1: no elements
     <<-100, 0, 200, 600>>,  \* 2: 300 x 600, scaled down by 4
     <<0, 0, 2, 600>>,       \* 3: 2 x 600, half a pixel wide once scaled
     <<10, 0, 10, 100>> >>   \* 4: a vertical line, width 0
SceneIds == 1..Len(SceneBoundsOf)

length(els) == IF els = EmptyScene THEN 0 ELSE 1

\* further collections, for the sizes at and around the side of the minimap
MoreSceneBounds ==
  << <<0, 0, 150, 150>>,     \* 5: 150 x 150, exactly the minimap
     <<0, 0, 151, 150>>,     \* 6: 151 x 150
     <<-1, 0, 149, 151>>,    \* 7: 150 x 151
     <<50, 50, 150, 150>>,   \* 8: 100 x 100
     <<5, 5, 5, 5>>,         \* 9: a point
     <<0, 0, 600, 300>>,     \* 10: 600 x 300
     <<0, 7, 100, 7>>,       \* 11: a horizontal line, height 0
     <<3, 0, 3, 200>>,       \* 12: a vertical line taller than the minimap
     <<0, 0, 292, 100>> >>   \* 13: 292 x 100: 150 / 292 is rounded up
AllSceneIds == 1..(Len(SceneBoundsOf) + Len(MoreSceneBounds))

getCommonBounds(els) ==
  IF els <= Len(SceneBoundsOf) THEN SceneBoundsOf[els]
  ELSE MoreSceneBounds[els - Len(SceneBoundsOf)]

NoBounds == [null |-> TRUE, minX |-> 0, minY |-> 0, maxX |-> 0, maxY |-> 0,
             width |-> 0, height |-> 0]

\* useMemo sceneBounds
sceneBounds(els) ==
  IF length(els) = 0 THEN NoBounds
  ELSE LET b == getCommonBounds(els)
       IN  [null |-> FALSE, minX |-> b[1], minY |-> b[2], maxX |-> b[3],
            maxY |-> b[4], width |-> b[3] - b[1], height |-> b[4] - b[2]]

\* a plausible slip: only the width fitted into the minimap
minimapScaleWidthOnly(els) ==
  LET sb == sceneBounds(els)
  IN  IF sb.null THEN Q(1)
      ELSE RMin(RDiv(Q(MINIMAP_SIZE), Q(sb.width)), Q(1))

\* a plausible slip: the cap at 1 left out of Math.min
minimapScaleNoCap(els) ==
  LET sb == sceneBounds(els)
  IN  IF sb.null THEN Q(1)
      ELSE RMin(RDiv(Q(MINIMAP_SIZE), Q(sb.width)),
                RDiv(Q(MINIMAP_SIZE), Q(sb.height)))

\* useMemo minimapScale
minimapScale(els) ==
  LET sb == sceneBounds(els)
  IN  IF sb.null THEN Q(1)
      ELSE LET scaleX == RDiv(Q(MINIMAP_SIZE), Q(sb.width))
               scaleY == RDiv(Q(MINIMAP_SIZE), Q(sb.height))
           IN  RMin(RMin(scaleX, scaleY), Q(1))

----------------------------------------------------------------------------
(* State                                                                   *)

VARIABLES
  def,                  \* which definition of the component is mounted: 1 or 2
  elements,             \* useExcalidrawElements(): the host's element collection
  appState,             \* the host's application state, the updates queued by setAppState applied
  seen,                 \* the appState of the last render: what the handlers' closures read
  renderPending,        \* a setAppState of a pointer-move waits for the next render
  minimapCanvas,        \* useState: the preview bitmap, or null
  debounceTimerRef,     \* the timer armed last, with the updateMinimap closure it runs
  inFlight,             \* exportToCanvas calls awaited, oldest first, with their closures
  isDraggingRef,
  isDraggingMinimapRef,
  dragStartRef,
  listeners,            \* document mousemove/mouseup listener pairs registered
  otherTimers,          \* timers still pending that debounceTimerRef.current no longer names
  app,                  \* the editor: app.editorInterface.formFactor
  isDarwin,             \* the platform is macOS
  event,                \* the last key event the action manager saw
  sinceChange,          \* ms since elements, scrollX, scrollY or zoom last changed (capped)
  dragActive,           \* a pointer-down on the preview with no pointer-up or -leave since
  handleAnchor          \* the header pointer-down of the handle drag: position minus widget position

vars == <<def, elements, appState, seen, renderPending, minimapCanvas,
          debounceTimerRef, otherTimers, inFlight, isDraggingRef, isDraggingMinimapRef,
          dragStartRef, listeners, app, isDarwin, event, sinceChange, dragActive,
          handleAnchor>>

\* the editor, the platform and the keyboard: what the widget never touches
ui == <<app, isDarwin, event>>

NullCanvas == [null |-> TRUE, width |-> Q(0), height |-> Q(0), els |-> EmptyScene]
Canvas(w, h, els) == [null |-> FALSE, width |-> w, height |-> h, els |-> els]

NoTimer == [pending |-> FALSE, remaining |-> 0, els |-> EmptyScene]

\* a key event; NoEvent stands for no key pressed yet
KeyEvent(code, ctrl, meta, alt, shift) ==
  [code |-> code, ctrlKey |-> ctrl, metaKey |-> meta, altKey |-> alt, shiftKey |-> shift]
NoEvent == KeyEvent("", FALSE, FALSE, FALSE, FALSE)

\* the zoom values and window sizes of the host
Zooms == {1, 2}
WindowSizes == {<<200, 600>>}
\* where the host can scroll the viewport to
HostScrolls == {<<Q(0), Q(0)>>, <<Q(-100), Q(50)>>}
\* pointer positions on the preview canvas, relative to its top left corner
CanvasPoints == {<<75, 75>>, <<0, 150>>}
\* pointer positions in the window
WindowPoints == {<<0, 0>>, <<120, 200>>, <<700, 900>>}
\* where on the header the handle is grabbed, relative to the widget's corner
HeaderPoints == {<<30, 12>>}

----------------------------------------------------------------------------
(* The pure parts of the component                                         *)

\* the second definition's isVisible prop: the host passes its visibility flag
isVisible(as) == as.showMinimap

\* getDimensions of updateMinimap: the bitmap size asked of the export
getDimensions(d, els) ==
  LET sb == sceneBounds(els)
      w  == RMul(Q(sb.width), minimapScale(els))
      h  == RMul(Q(sb.height), minimapScale(els))
  IN  IF d = 1 THEN [width |-> RMax(Q(1), w), height |-> RMax(Q(1), h)]
      ELSE [width |-> w, height |-> h]

----------------------------------------------------------------------------
(* JavaScript numbers as they are computed: IEEE 754 binary64, round to
   nearest, ties to even.  A positive number is [e, m]: m the 53 bits of its
   significand, most significant (always 1) first, and its value
   m[1].m[2]...m[53] (binary) * 2^e.  Only what getDimensions needs: an
   integer, the quotient of two integers, the product with an integer. *)

SignificandBits == 53

RECURSIVE Pow2(_)
Pow2(k) == IF k = 0 THEN 1 ELSE 2 * Pow2(k - 1)

\* the bits of the integer n > 0, most significant first
RECURSIVE BitsOf(_)
BitsOf(n) == IF n < 2 THEN <<n>> ELSE Append(BitsOf(n \div 2), n % 2)

Zeros(n) == [i \in 1..n |-> 0]

\* bits + 1 as a binary number of the same length; carry: it did not fit
AddOne(bits) ==
  IF \A i \in 1..Len(bits) : bits[i] = 1
  THEN [bits |-> Zeros(Len(bits)), carry |-> 1]
  ELSE LET z == CHOOSE i \in 1..Len(bits) :
                  bits[i] = 0 /\ \A j \in (i + 1)..Len(bits) : bits[j] = 1
       IN  [bits |-> [i \in 1..Len(bits) |->
                        IF i < z THEN bits[i] ELSE IF i = z THEN 1 ELSE 0],
            carry |-> 0]

\* round the number 1.bits * 2^e to 53 bits; sticky: nonzero digits follow bits
RoundToDouble(e, bits, sticky) ==
  LET kept == SubSeq(bits, 1, SignificandBits)
      rest == SubSeq(bits, SignificandBits + 1, Len(bits))
      half == Len(rest) > 0 /\ rest[1] = 1
      more == sticky \/ \E i \in 2..Len(rest) : rest[i] = 1
      up   == half /\ (more \/ kept[SignificandBits] = 1)
      r    == AddOne(kept)
  IN  IF ~up THEN [e |-> e, m |-> kept]
      ELSE IF r.carry = 1 THEN [e |-> e + 1, m |-> <<1>> \o Zeros(SignificandBits - 1)]
      ELSE [e |-> e, m |-> r.bits]

\* an integer n > 0 as a number
Double(n) ==
  LET b == BitsOf(n)
  IN  [e |-> Len(b) - 1, m |-> b \o Zeros(SignificandBits - Len(b))]

\* the integer v < 2^n in n bits
InBits(v, n) == Zeros(n - Len(BitsOf(v))) \o BitsOf(v)

\* the first 53 bits after the point of r / b, for r < b < 2^16, and the
\* remainder left: the long division in limbs of 14, 14, 14 and 11 bits
DivBits(r, b) ==
  LET limb == 14
      last == 11
      n1 == r * Pow2(limb)
      n2 == (n1 % b) * Pow2(limb)
      n3 == (n2 % b) * Pow2(limb)
      n4 == (n3 % b) * Pow2(last)
  IN  [bits |-> InBits(n1 \div b, limb) \o InBits(n2 \div b, limb)
                  \o InBits(n3 \div b, limb) \o InBits(n4 \div b, last),
       r |-> n4 % b]

\* a / b for integers a and b, 0 < a, b < 2^16
DoubleDiv(a, b) ==
  LET e == IF a >= b
           THEN CHOOSE k \in 0..24 : b * Pow2(k) <= a /\ a < b * Pow2(k + 1)
           ELSE -(CHOOSE k \in 1..24 : a * Pow2(k) >= b /\ a * Pow2(k - 1) < b)
      n == IF e >= 0 THEN a ELSE a * Pow2(-e)
      d == IF e >= 0 THEN b * Pow2(e) ELSE b
      q == DivBits(n - d, d)
  IN  RoundToDouble(e, <<1>> \o q.bits, q.r # 0)

\* the integer whose bits are bits, most significant first
RECURSIVE IntOf(_)
IntOf(bits) ==
  IF bits = <<>> THEN 0
  ELSE 2 * IntOf(SubSeq(bits, 1, Len(bits) - 1)) + bits[Len(bits)]

\* the bits of the 53-bit integer bits times n, for 0 < n < 2^16: the long
\* multiplication in limbs of 14 bits, the least significant last
MulBits(bits, n) ==
  LET limb == 14
      c1 == IntOf(SubSeq(bits, 1, 11))
      c2 == IntOf(SubSeq(bits, 12, 25))
      c3 == IntOf(SubSeq(bits, 26, 39))
      c4 == IntOf(SubSeq(bits, 40, 53))
      p4 == c4 * n
      p3 == c3 * n + (p4 \div Pow2(limb))
      p2 == c2 * n + (p3 \div Pow2(limb))
      p1 == c1 * n + (p2 \div Pow2(limb))
  IN  BitsOf(p1) \o InBits(p2 % Pow2(limb), limb) \o InBits(p3 % Pow2(limb), limb)
        \o InBits(p4 % Pow2(limb), limb)

\* x * n for a number x and an integer n, 0 < n < 2^16
DoubleMul(x, n) ==
  LET p == MulBits(x.m, n)
  IN  RoundToDouble(x.e + (Len(p) - SignificandBits), p, FALSE)

\* x < y
DoubleLt(x, y) ==
  \/ x.e < y.e
  \/ /\ x.e = y.e
     /\ \E i \in 1..SignificandBits :
          /\ x.m[i] < y.m[i]
          /\ \A j \in 1..(i - 1) : x.m[j] = y.m[j]

DoubleMin(x, y) == IF DoubleLt(y, x) THEN y ELSE x
DoubleMax(x, y) == IF DoubleLt(x, y) THEN y ELSE x

\* minimapScale as the first definition computes it, for a scene of positive size
minimapScaleDouble(els) ==
  LET sb == sceneBounds(els)
      scaleX == DoubleDiv(MINIMAP_SIZE, sb.width)
      scaleY == DoubleDiv(MINIMAP_SIZE, sb.height)
  IN  DoubleMin(DoubleMin(scaleX, scaleY), Double(1))

\* getDimensions of updateMinimap as the first definition computes it
getDimensionsDouble(els) ==
  LET sb == sceneBounds(els)
  IN  [width  |-> DoubleMax(Double(1), DoubleMul(minimapScaleDouble(els), sb.width)),
       height |-> DoubleMax(Double(1), DoubleMul(minimapScaleDouble(els), sb.height))]

\* what the awaited exportToCanvas can give for a closure over els:
\* a bitmap of the size asked, a bitmap of no size, no bitmap, or an exception
ExportOutcomes == {"canvas", "empty", "null", "throw"}
exportToCanvas(d, els, outcome) ==
  CASE outcome = "canvas" ->
         Canvas(getDimensions(d, els).width, getDimensions(d, els).height, els)
    [] outcome = "empty" -> Canvas(Q(0), Q(0), els)
    [] OTHER -> NullCanvas

\* the guard at the head of updateMinimap: TRUE when it returns without exporting
updateMinimapSkips(d, els) ==
  LET sb == sceneBounds(els)
  IN  IF d = 1
      THEN length(els) = 0 \/ sb.null \/ sb.width <= 0 \/ sb.height <= 0
      ELSE length(els) = 0 \/ sb.null

\* a plausible slip: the visibility guard left out
rendersWidgetUnguarded(d, els, as, canvas) ==
  IF d = 1
  THEN ~(length(els) = 0 \/ canvas.null \/ canvas.width = Q(0) \/ canvas.height = Q(0))
  ELSE TRUE

\* the render guards: TRUE when the component returns the widget, FALSE when null
rendersWidget(d, els, as, canvas) ==
  IF d = 1
  THEN /\ as.showMinimap
       /\ ~(length(els) = 0 \/ canvas.null \/ canvas.width = Q(0) \/ canvas.height = Q(0))
  ELSE isVisible(as)

Shown == rendersWidget(def, elements, appState, minimapCanvas)

\* offsetX, offsetY of the draw effect: where the bitmap is drawn in the
\* 150 x 150 preview canvas
renderOffset(d, canvas) ==
  IF d = 1 /\ ~(~canvas.null /\ RLt(Q(0), canvas.width) /\ RLt(Q(0), canvas.height))
  THEN [x |-> Q(0), y |-> Q(0)]
  ELSE [x |-> RMax(Q(0), RDiv(RSub(Q(MINIMAP_SIZE), canvas.width), Q(2))),
        y |-> RMax(Q(0), RDiv(RSub(Q(MINIMAP_SIZE), canvas.height), Q(2)))]

\* a plausible slip: the scene's origin not subtracted
sceneToMinimapNoOrigin(els, px, py) ==
  [x |-> RMul(px, minimapScale(els)), y |-> RMul(py, minimapScale(els))]

\* the forward mapping of viewportRect: a scene point in bitmap coordinates
sceneToMinimap(els, px, py) ==
  [x |-> RMul(RSub(px, Q(sceneBounds(els).minX)), minimapScale(els)),
   y |-> RMul(RSub(py, Q(sceneBounds(els).minY)), minimapScale(els))]

\* useMemo viewportRect
viewportRect(els, as, canvas) ==
  LET sb == sceneBounds(els)
      viewportWidth  == RDiv(Q(as.width), Q(as.zoom))
      viewportHeight == RDiv(Q(as.height), Q(as.zoom))
      viewportMinX == RNeg(as.scrollX)
      viewportMinY == RNeg(as.scrollY)
      viewportMaxX == RAdd(viewportMinX, viewportWidth)
      viewportMaxY == RAdd(viewportMinY, viewportHeight)
      mMinX == sceneToMinimap(els, viewportMinX, viewportMinY).x
      mMinY == sceneToMinimap(els, viewportMinX, viewportMinY).y
      mMaxX == sceneToMinimap(els, viewportMaxX, viewportMaxY).x
      mMaxY == sceneToMinimap(els, viewportMaxX, viewportMaxY).y
  IN  IF canvas.null \/ sb.null THEN [null |-> TRUE, x |-> Q(0), y |-> Q(0),
                                      width |-> Q(0), height |-> Q(0)]
      ELSE [null |-> FALSE, x |-> mMinX, y |-> mMinY,
            width |-> RSub(mMaxX, mMinX), height |-> RSub(mMaxY, mMinY)]

\* rectX, rectY of the draw effect for the scene point (px, py): where the
\* viewport indicator's corner at that point is drawn in the preview canvas
drawnAt(d, els, canvas, px, py) ==
  [x |-> RAdd(sceneToMinimap(els, px, py).x, renderOffset(d, canvas).x),
   y |-> RAdd(sceneToMinimap(els, px, py).y, renderOffset(d, canvas).y)]

\* canvasRef.current.getBoundingClientRect(): the preview canvas on screen
getBoundingClientRect(d, as) ==
  IF d = 1
  THEN [left |-> as.minimapPosition.x + 8, top |-> as.minimapPosition.y + 8 + 24]
  ELSE [left |-> as.width - 20 - 8 - MINIMAP_SIZE, top |-> as.height - 20 - 8 - MINIMAP_SIZE]

----------------------------------------------------------------------------
(* The update effect and the debounce                                      *)

\* a plausible slip: a shorter delay
debouncedUpdateShort(els) ==
  [pending |-> TRUE, remaining |-> DEBOUNCE_DELAY - TickMs, els |-> els]

\* debouncedUpdate: the timer it arms, running the updateMinimap of this render
debouncedUpdate(els) == [pending |-> TRUE, remaining |-> DEBOUNCE_DELAY, els |-> els]

\* a plausible slip: the timer armed before is left to run
clearTimeoutMissing(timer, others) ==
  IF timer.pending
  THEN others \cup {[remaining |-> timer.remaining, els |-> timer.els]}
  ELSE others

\* clearTimeout(debounceTimerRef.current) of debouncedUpdate: the timers that are
\* still pending beside the new one, when the one armed before was timer
clearTimeout(timer, others) == others

\* a plausible slip: more than one element wanted before the preview is made
effectArmsSeveral(d, els, as) ==
  IF d = 1 THEN as.showMinimap /\ length(els) > 1 ELSE isVisible(as)

\* the update effect's branch that calls debouncedUpdate
effectArms(d, els, as) ==
  IF d = 1 THEN as.showMinimap /\ length(els) > 0 ELSE isVisible(as)

\* the update effect's branch that calls setMinimapCanvas(null)
effectClears(d, els, as) ==
  d = 1 /\ ~effectArms(d, els, as) /\ (~as.showMinimap \/ length(els) = 0)

\* A render with a new appState or new elements, and the update effect after it
\* (its dependency debouncedUpdate changes with every appState and elements).
Commit(els, as) ==
  /\ elements' = els
  /\ appState' = as
  /\ seen' = as
  /\ renderPending' = FALSE
  /\ debounceTimerRef' = IF effectArms(def, els, as) THEN debouncedUpdate(els)
                         ELSE debounceTimerRef
  /\ otherTimers' = IF effectArms(def, els, as)
                    THEN clearTimeout(debounceTimerRef, otherTimers)
                    ELSE otherTimers
  /\ minimapCanvas' = IF effectClears(def, els, as) THEN NullCanvas ELSE minimapCanvas

Viewport(els, as) == <<els, as.scrollX, as.scrollY, as.zoom>>

\* sinceChange after a step to (els, as)
Since(els, as) ==
  IF Viewport(els, as) # Viewport(elements, appState) THEN 0 ELSE sinceChange

refs == <<isDraggingRef, isDraggingMinimapRef, dragStartRef, listeners, dragActive,
          handleAnchor>>

----------------------------------------------------------------------------
(* The host                                                                *)

ChangeElements(els) ==
  /\ ~renderPending
  /\ els # elements
  /\ Commit(els, appState)
  /\ sinceChange' = 0
  /\ UNCHANGED <<def, ui, inFlight, refs>>

HostScroll(p) ==
  /\ ~renderPending
  /\ <<appState.scrollX, appState.scrollY>> # p
  /\ Commit(elements, [appState EXCEPT !.scrollX = p[1], !.scrollY = p[2]])
  /\ sinceChange' = 0
  /\ UNCHANGED <<def, ui, inFlight, refs>>

HostZoom(z) ==
  /\ ~renderPending
  /\ z # appState.zoom
  /\ Commit(elements, [appState EXCEPT !.zoom = z])
  /\ sinceChange' = 0
  /\ UNCHANGED <<def, ui, inFlight, refs>>

\* actionToggleMinimap
\* a plausible slip: the item always taken as checked
checkedAlways(as) == TRUE

checked(as) == as.showMinimap

\* a plausible slip: the action written as "show the minimap"
performShows(els, as) ==
  [appState |-> [as EXCEPT !.showMinimap = TRUE], captureUpdate |-> "EVENTUALLY"]

perform(els, as) ==
  [appState |-> [as EXCEPT !.showMinimap = ~checked(as)],
   captureUpdate |-> "EVENTUALLY"]

ToggleMinimap ==
  /\ ~renderPending
  /\ Commit(elements, perform(elements, appState).appState)
  /\ UNCHANGED <<def, ui, inFlight, refs, sinceChange>>

\* a plausible slip: the action offered only while the minimap is hidden
predicateWhileHidden(els, as, a) ==
  a.editorInterface.formFactor # "phone" /\ ~as.showMinimap

predicate(els, as, a) == a.editorInterface.formFactor # "phone"

\* KEYS.CTRL_OR_CMD and CODES.M of @excalidraw/common
KEYS_CTRL_OR_CMD == IF isDarwin THEN "metaKey" ELSE "ctrlKey"
CODES_M == "KeyM"

\* a plausible slip: the Shift test left out
keyTestShiftIgnored(e) ==
  ~e[KEYS_CTRL_OR_CMD] /\ ~e.altKey /\ e.code = CODES_M

keyTest(e) ==
  ~e[KEYS_CTRL_OR_CMD] /\ ~e.altKey /\ ~e.shiftKey /\ e.code = CODES_M

\* the key events, the form factors and the widget positions of the model
KeyCodes == {"KeyM", "KeyN"}
KeyEvents ==
  {KeyEvent(c, k[1], k[2], k[3], k[4]) :
     c \in KeyCodes, k \in BOOLEAN \X BOOLEAN \X BOOLEAN \X BOOLEAN}
FormFactors == {"phone", "tablet", "desktop"}
MinimapPositions == {[x |-> 10, y |-> 10], [x |-> 10, y |-> 390]}

\* a key pressed: the action manager performs the action whose keyTest matches
KeyDown(e) ==
  /\ ~renderPending
  /\ event' = e
  /\ IF keyTest(e)
     THEN Commit(elements, perform(elements, appState).appState)
     ELSE UNCHANGED <<elements, appState, seen, renderPending, debounceTimerRef,
                      otherTimers, minimapCanvas>>
  /\ UNCHANGED <<def, app, isDarwin, inFlight, refs, sinceChange>>

\* the menu item, offered while the action's predicate holds
MenuToggle ==
  /\ ~renderPending
  /\ predicate(elements, appState, app)
  /\ Commit(elements, perform(elements, appState).appState)
  /\ UNCHANGED <<def, ui, inFlight, refs, sinceChange>>

\* the editor's form factor changes (the window is resized)
FormFactorChange(ff) ==
  /\ ff # app.editorInterface.formFactor
  /\ app' = [editorInterface |-> [formFactor |-> ff]]
  /\ UNCHANGED <<def, isDarwin, event, elements, appState, seen, renderPending,
                 minimapCanvas, debounceTimerRef, otherTimers, inFlight, refs,
                 sinceChange>>

\* a change of the host state in a field the widget's effect does not list (the
\* theme, a collaborator's pointer): appState is a new object with these fields equal
OtherAppStateChange ==
  /\ ~renderPending
  /\ Commit(elements, appState)
  /\ UNCHANGED <<def, ui, inFlight, refs, sinceChange>>

----------------------------------------------------------------------------
(* Time, the debounce timer and the export                                 *)

\* the timers pending: the one debounceTimerRef.current names, and the others
PendingTimers ==
  (IF debounceTimerRef.pending
   THEN {[remaining |-> debounceTimerRef.remaining, els |-> debounceTimerRef.els]}
   ELSE {}) \cup otherTimers

TimerDue == \E t \in PendingTimers : t.remaining <= 0

Tick ==
  /\ ~renderPending
  /\ ~TimerDue
  /\ PendingTimers # {} \/ sinceChange < DEBOUNCE_DELAY
  /\ debounceTimerRef' = IF debounceTimerRef.pending
                         THEN [debounceTimerRef EXCEPT !.remaining = @ - TickMs]
                         ELSE debounceTimerRef
  /\ otherTimers' = {[t EXCEPT !.remaining = @ - TickMs] : t \in otherTimers}
  /\ sinceChange' = IMin(DEBOUNCE_DELAY, sinceChange + TickMs)
  /\ UNCHANGED <<def, ui, elements, appState, seen, renderPending, minimapCanvas, inFlight, refs>>

\* the timer runs updateMinimap up to its await
TimerFire ==
  /\ ~renderPending
  /\ \E t \in PendingTimers :
       /\ t.remaining <= 0
       /\ IF t \in otherTimers
          THEN /\ otherTimers' = otherTimers \ {t}
               /\ debounceTimerRef' = debounceTimerRef
          ELSE /\ otherTimers' = otherTimers
               /\ debounceTimerRef' = [debounceTimerRef EXCEPT !.pending = FALSE]
       /\ IF updateMinimapSkips(def, t.els)
          THEN /\ minimapCanvas' = IF def = 1 THEN NullCanvas ELSE minimapCanvas
               /\ inFlight' = inFlight
          ELSE /\ Len(inFlight) < MaxInFlight
               /\ inFlight' = Append(inFlight, [els |-> t.els])
               /\ minimapCanvas' = minimapCanvas
  /\ UNCHANGED <<def, ui, elements, appState, seen, renderPending, refs, sinceChange>>

\* updateMinimap after its await: what it does with the export's outcome
afterExport(d, canvas, c, outcome) ==
  IF d = 1
  THEN IF outcome # "throw" /\ ~c.null /\ RLt(Q(0), c.width) /\ RLt(Q(0), c.height)
       THEN c ELSE NullCanvas
  ELSE IF outcome = "throw" THEN canvas ELSE c

\* a plausible slip: minimapCanvas listed among the update effect's dependencies
effectRerunsForBitmap(old, new) == old # new

\* the update effect's dependency list: whether the render after
\* setMinimapCanvas, which changes the bitmap alone, runs the effect again
effectRerunsFor(old, new) == FALSE

RemoveAt(seq, i) == [j \in 1..(Len(seq) - 1) |-> IF j < i THEN seq[j] ELSE seq[j + 1]]

ExportResolve(i, outcome) ==
  /\ ~renderPending
  /\ i \in 1..Len(inFlight)
  /\ LET new  == afterExport(def, minimapCanvas,
                             exportToCanvas(def, inFlight[i].els, outcome), outcome)
         arms == /\ effectRerunsFor(minimapCanvas, new)
                 /\ effectArms(def, elements, appState)
     IN  /\ minimapCanvas' = new
         /\ debounceTimerRef' = IF arms THEN debouncedUpdate(elements) ELSE debounceTimerRef
         /\ otherTimers' = IF arms THEN clearTimeout(debounceTimerRef, otherTimers)
                           ELSE otherTimers
  /\ inFlight' = RemoveAt(inFlight, i)
  /\ UNCHANGED <<def, ui, elements, appState, seen, renderPending, refs, sinceChange>>

----------------------------------------------------------------------------
(* Pointer events on the preview canvas                                    *)

\* where a canvas point is in the window, by the canvas of the last render
Client(p) ==
  [x |-> getBoundingClientRect(def, seen).left + p[1],
   y |-> getBoundingClientRect(def, seen).top + p[2]]

\* a plausible slip: the free space of the preview canvas not halved
clickOffsetNotHalved(canvas) ==
  [x |-> RMax(Q(0), RSub(Q(MINIMAP_SIZE), canvas.width)),
   y |-> RMax(Q(0), RSub(Q(MINIMAP_SIZE), canvas.height))]

\* offsetX, offsetY of handleCanvasMouseDown
clickOffset(canvas) ==
  [x |-> RMax(Q(0), RDiv(RSub(Q(MINIMAP_SIZE), canvas.width), Q(2))),
   y |-> RMax(Q(0), RDiv(RSub(Q(MINIMAP_SIZE), canvas.height), Q(2)))]

\* sceneX, sceneY of handleCanvasMouseDown for a click at (clickX, clickY) of the canvas
clickToScene(els, canvas, clickX, clickY) ==
  LET sb == sceneBounds(els)
      adjustedClickX == RSub(clickX, clickOffset(canvas).x)
      adjustedClickY == RSub(clickY, clickOffset(canvas).y)
  IN  [x |-> RAdd(RDiv(adjustedClickX, minimapScale(els)), Q(sb.minX)),
       y |-> RAdd(RDiv(adjustedClickY, minimapScale(els)), Q(sb.minY))]

\* a plausible slip: the clicked point put at the viewport's corner, not its center
clickToScrollCorner(els, as, canvas, clickX, clickY) ==
  LET scene == clickToScene(els, canvas, clickX, clickY)
  IN  [x |-> RNeg(scene.x), y |-> RNeg(scene.y)]

\* newScrollX, newScrollY of handleCanvasMouseDown
clickToScroll(els, as, canvas, clickX, clickY) ==
  LET scene == clickToScene(els, canvas, clickX, clickY)
      viewportWidth  == RDiv(Q(as.width), Q(as.zoom))
      viewportHeight == RDiv(Q(as.height), Q(as.zoom))
  IN  [x |-> RNeg(RSub(scene.x, RDiv(viewportWidth, Q(2)))),
       y |-> RNeg(RSub(scene.y, RDiv(viewportHeight, Q(2))))]

\* handleCanvasMouseDown returns before it does anything
mouseDownReturns(els, canvas) == canvas.null \/ sceneBounds(els).null

\* a plausible slip: the two clamps applied in the other order
handleGlobalMouseMoveMinLast(as, start, e) ==
  LET newX == e.x - start.x
      newY == e.y - start.y
      padding == 10
      maxX == as.width - 200 - padding
      maxY == as.height - 200 - padding
  IN  [x |-> IMin(IMax(padding, newX), maxX), y |-> IMin(IMax(padding, newY), maxY)]

\* the minimapPosition handleGlobalMouseMove sets for a pointer at e
handleGlobalMouseMove(as, start, e) ==
  LET newX == e.x - start.x
      newY == e.y - start.y
      padding == 10
      maxX == as.width - 200 - padding
      maxY == as.height - 200 - padding
  IN  [x |-> IMax(padding, IMin(newX, maxX)), y |-> IMax(padding, IMin(newY, maxY))]

\* The pointer can rest on canvas point p.  During a handle drag the document's
\* mousemove listener has placed the widget for every position the pointer took,
\* so the pointer is over the preview only where that placement leaves the
\* widget where it is (it is held at the window's edge).
OverPreview(p) ==
  (listeners > 0 /\ isDraggingMinimapRef) =>
    handleGlobalMouseMove(appState, dragStartRef, Client(p)) = appState.minimapPosition

\* a plausible slip: the zoom reset together with the scroll
setAppStateScrollZoomReset(as, s) ==
  [as EXCEPT !.scrollX = s.x, !.scrollY = s.y, !.zoom = 1]

\* setAppState({scrollX, scrollY}) of the canvas handlers: a partial state,
\* merged into the host's
setAppStateScroll(as, s) ==
  [as EXCEPT !.scrollX = s.x, !.scrollY = s.y]

\* a pointer-down on the preview: handleCanvasMouseDown
CanvasMouseDown(p) ==
  /\ ~renderPending
  /\ Shown
  /\ OverPreview(p)
  /\ dragActive' = TRUE
  /\ IF mouseDownReturns(elements, minimapCanvas)
     THEN UNCHANGED <<elements, appState, seen, renderPending, minimapCanvas,
                      debounceTimerRef, otherTimers, isDraggingRef, dragStartRef,
                      sinceChange>>
     ELSE LET rect == getBoundingClientRect(def, seen)
              new  == clickToScroll(elements, seen, minimapCanvas,
                                    Q(Client(p).x - rect.left), Q(Client(p).y - rect.top))
              as   == setAppStateScroll(appState, new)
          IN  /\ isDraggingRef' = TRUE
              /\ dragStartRef' = Client(p)
              /\ Commit(elements, as)
              /\ sinceChange' = Since(elements, as)
  /\ UNCHANGED <<def, ui, inFlight, isDraggingMinimapRef, listeners, handleAnchor>>

\* handleCanvasMouseMove returns before it does anything
mouseMoveReturns(dragging, els, canvas) ==
  ~dragging \/ canvas.null \/ sceneBounds(els).null

\* a plausible slip: the drag delta multiplied by the scale
dragToScrollTimes(els, as, start, e) ==
  LET sceneDeltaX == RMul(Q(e.x - start.x), minimapScale(els))
      sceneDeltaY == RMul(Q(e.y - start.y), minimapScale(els))
  IN  [x |-> RSub(as.scrollX, sceneDeltaX), y |-> RSub(as.scrollY, sceneDeltaY)]

\* the scroll handleCanvasMouseMove sets for a pointer at e
dragToScroll(els, as, start, e) ==
  LET sceneDeltaX == RDiv(Q(e.x - start.x), minimapScale(els))
      sceneDeltaY == RDiv(Q(e.y - start.y), minimapScale(els))
  IN  [x |-> RSub(as.scrollX, sceneDeltaX), y |-> RSub(as.scrollY, sceneDeltaY)]

WithinScroll(s) ==
  /\ RLe(Q(-MaxScroll), s.x) /\ RLe(s.x, Q(MaxScroll))
  /\ RLe(Q(-MaxScroll), s.y) /\ RLe(s.y, Q(MaxScroll))

\* a pointer-move over the preview: handleCanvasMouseMove, then the document's
\* mousemove listeners of a handle drag; the host state they set waits for a render
CanvasMouseMove(p) ==
  /\ Shown
  /\ OverPreview(p)
  /\ LET e       == Client(p)
         handled == ~mouseMoveReturns(isDraggingRef, elements, minimapCanvas)
         scroll  == dragToScroll(elements, seen, dragStartRef, e)
         start   == IF handled THEN e ELSE dragStartRef
         global  == listeners > 0 /\ isDraggingMinimapRef
         as1     == IF handled
                    THEN setAppStateScroll(appState, scroll)
                    ELSE appState
         as2     == IF global
                    THEN [as1 EXCEPT !.minimapPosition = handleGlobalMouseMove(as1, start, e)]
                    ELSE as1
     IN  /\ handled => WithinScroll(scroll)
         /\ dragStartRef' = start
         /\ appState' = as2
         /\ renderPending' = (renderPending \/ handled \/ global)
         /\ sinceChange' = Since(elements, as2)
  /\ UNCHANGED <<def, ui, elements, seen, minimapCanvas, debounceTimerRef, otherTimers, inFlight,
                 isDraggingRef, isDraggingMinimapRef, listeners, dragActive, handleAnchor>>

\* React renders with the host state the pointer-moves have set
Render ==
  /\ renderPending
  /\ Commit(elements, appState)
  /\ UNCHANGED <<def, ui, inFlight, refs, sinceChange>>

\* a plausible slip: the handlers kept in one place, so that a mouseup removes
\* the pair registered last only
handleGlobalMouseUpLatest(n) == IF n > 0 THEN n - 1 ELSE 0

\* the listener pairs left registered after a document mouseup with n pairs
\* registered: every pair's handleGlobalMouseUp runs and removes its own pair
handleGlobalMouseUp(n) == IF n > 0 THEN 0 ELSE n

\* a pointer-up on the preview: handleCanvasMouseUp, then the document's mouseup listeners
CanvasMouseUp ==
  /\ Shown
  /\ \E p \in CanvasPoints : OverPreview(p)
  /\ isDraggingRef' = FALSE
  /\ dragActive' = FALSE
  /\ isDraggingMinimapRef' = IF listeners > 0 THEN FALSE ELSE isDraggingMinimapRef
  /\ listeners' = handleGlobalMouseUp(listeners)
  /\ UNCHANGED <<def, ui, elements, appState, seen, renderPending, minimapCanvas,
                 debounceTimerRef, otherTimers, inFlight, dragStartRef, sinceChange, handleAnchor>>

\* the pointer leaves the preview: handleCanvasMouseUp
CanvasMouseLeave ==
  /\ Shown
  /\ isDraggingRef' = FALSE
  /\ dragActive' = FALSE
  /\ UNCHANGED <<def, ui, elements, appState, seen, renderPending, minimapCanvas,
                 debounceTimerRef, otherTimers, inFlight, isDraggingMinimapRef, dragStartRef,
                 listeners, sinceChange, handleAnchor>>

----------------------------------------------------------------------------
(* The header handle (first definition)                                    *)

\* a pointer-down on the header: handleMinimapMouseDown.  The pointer is on the
\* header, so it has left the preview and a drag on the preview has ended.
HeaderMouseDown(h) ==
  /\ ~renderPending
  /\ def = 1
  /\ Shown
  /\ ~dragActive
  /\ listeners < MaxListeners
  /\ LET e == [x |-> seen.minimapPosition.x + h[1], y |-> seen.minimapPosition.y + h[2]]
         start == [x |-> e.x - seen.minimapPosition.x, y |-> e.y - seen.minimapPosition.y]
     IN  /\ isDraggingMinimapRef' = TRUE
         /\ dragStartRef' = start
         /\ handleAnchor' = start
  /\ listeners' = listeners + 1
  /\ UNCHANGED <<def, ui, elements, appState, seen, renderPending, minimapCanvas,
                 debounceTimerRef, otherTimers, inFlight, isDraggingRef, sinceChange, dragActive>>

\* a pointer-move off the preview during a handle drag: the document's mousemove listeners
GlobalMouseMove(w) ==
  /\ ~renderPending
  /\ listeners > 0
  /\ isDraggingMinimapRef
  /\ Commit(elements, [appState EXCEPT !.minimapPosition =
                         handleGlobalMouseMove(appState, dragStartRef, [x |-> w[1], y |-> w[2]])])
  /\ UNCHANGED <<def, ui, inFlight, refs, sinceChange>>

\* a pointer-up off the preview: the document's mouseup listeners, if any
GlobalMouseUp ==
  /\ listeners > 0 \/ (~Shown /\ dragActive)
  /\ isDraggingMinimapRef' = IF listeners > 0 THEN FALSE ELSE isDraggingMinimapRef
  /\ listeners' = handleGlobalMouseUp(listeners)
  /\ dragActive' = IF Shown THEN dragActive ELSE FALSE
  /\ UNCHANGED <<def, ui, elements, appState, seen, renderPending, minimapCanvas,
                 debounceTimerRef, otherTimers, inFlight, isDraggingRef, dragStartRef, sinceChange,
                 handleAnchor>>

----------------------------------------------------------------------------
(* The state machine                                                       *)

Init ==
  /\ def \in {1, 2}
  /\ elements = EmptyScene
  /\ \E win \in WindowSizes, show \in BOOLEAN :
       appState = [scrollX |-> Q(0), scrollY |-> Q(0), zoom |-> 1,
                   width |-> win[1], height |-> win[2], showMinimap |-> show,
                   minimapPosition |-> [x |-> 10, y |-> 10]]
  /\ seen = appState
  /\ renderPending = FALSE
  /\ minimapCanvas = NullCanvas
  /\ debounceTimerRef = IF effectArms(def, elements, appState)
                        THEN debouncedUpdate(elements) ELSE NoTimer
  /\ otherTimers = {}
  /\ inFlight = <<>>
  /\ app = [editorInterface |-> [formFactor |-> "desktop"]]
  /\ isDarwin = FALSE
  /\ event = NoEvent
  /\ isDraggingRef = FALSE
  /\ isDraggingMinimapRef = FALSE
  /\ dragStartRef = [x |-> 0, y |-> 0]
  /\ listeners = 0
  /\ sinceChange = DEBOUNCE_DELAY
  /\ dragActive = FALSE
  /\ handleAnchor = [x |-> 0, y |-> 0]

\* the host, the clock, the debounce timer and the export
Next ==
  \/ \E els \in SceneIds : ChangeElements(els)
  \/ \E p \in HostScrolls : HostScroll(p)
  \/ \E z \in Zooms : HostZoom(z)
  \/ ToggleMinimap
  \/ OtherAppStateChange
  \/ Tick
  \/ TimerFire
  \/ \E i \in 1..MaxInFlight, o \in ExportOutcomes : ExportResolve(i, o)

Spec == Init /\ [][Next]_vars

----------------------------------------------------------------------------
(* The pointer handlers, from every configuration of elements, zoom and
   preview bitmap that Spec reaches with the minimap switched on: the bitmap
   is null, or the export of some collection, the current one or an earlier
   one (the bitmap is regenerated only 300 ms after a change). *)

Bitmaps(d) ==
  {NullCanvas} \cup
  {exportToCanvas(d, els, o) :
     els \in {e \in SceneIds : ~updateMinimapSkips(d, e)},
     o \in IF d = 1 THEN {"canvas"} ELSE {"canvas", "empty"}}

InitPointer ==
  /\ def \in {1, 2}
  /\ elements \in SceneIds
  /\ \E win \in WindowSizes, z \in Zooms :
       appState = [scrollX |-> Q(0), scrollY |-> Q(0), zoom |-> z,
                   width |-> win[1], height |-> win[2], showMinimap |-> TRUE,
                   minimapPosition |-> [x |-> 10, y |-> 10]]
  /\ seen = appState
  /\ renderPending = FALSE
  /\ minimapCanvas \in Bitmaps(def)
  /\ def = 1 /\ length(elements) = 0 => minimapCanvas = NullCanvas
  /\ debounceTimerRef = IF effectArms(def, elements, appState)
                        THEN debouncedUpdate(elements) ELSE NoTimer
  /\ otherTimers = {}
  /\ inFlight = <<>>
  /\ app = [editorInterface |-> [formFactor |-> "desktop"]]
  /\ isDarwin = FALSE
  /\ event = NoEvent
  /\ isDraggingRef = FALSE
  /\ isDraggingMinimapRef = FALSE
  /\ dragStartRef = [x |-> 0, y |-> 0]
  /\ listeners = 0
  /\ sinceChange = 0
  /\ dragActive = FALSE
  /\ handleAnchor = [x |-> 0, y |-> 0]

\* pointer events on the preview, and the host switching the minimap off and on
NextPointer ==
  \/ \E p \in CanvasPoints : CanvasMouseDown(p)
  \/ \E p \in CanvasPoints : CanvasMouseMove(p)
  \/ Render
  \/ CanvasMouseUp
  \/ CanvasMouseLeave
  \/ GlobalMouseUp
  \/ ToggleMinimap

SpecPointer == InitPointer /\ [][NextPointer]_vars

\* the header handle of the first definition, with pointer events on the preview
InitHandle == InitPointer /\ def = 1

NextHandle ==
  \/ \E h \in HeaderPoints : HeaderMouseDown(h)
  \/ \E w \in WindowPoints : GlobalMouseMove(w)
  \/ GlobalMouseUp
  \/ \E p \in CanvasPoints : CanvasMouseDown(p)
  \/ \E p \in CanvasPoints : CanvasMouseMove(p)
  \/ Render
  \/ CanvasMouseUp

SpecHandle == InitHandle /\ [][NextHandle]_vars

\* the first definition's preview under the pointer while the clock runs and
\* the bitmap is regenerated
InitRegen == InitPointer /\ def = 1

NextRegen ==
  \/ \E p \in CanvasPoints : CanvasMouseDown(p)
  \/ \E p \in CanvasPoints : CanvasMouseMove(p)
  \/ Render
  \/ CanvasMouseUp
  \/ CanvasMouseLeave
  \/ GlobalMouseUp
  \/ ToggleMinimap
  \/ Tick
  \/ TimerFire
  \/ \E i \in 1..MaxInFlight, o \in ExportOutcomes : ExportResolve(i, o)

SpecRegen == InitRegen /\ [][NextRegen]_vars

(* The scene alone: the host replaces the elements by any collection of the
   model, zooms and toggles, and the clock runs, with no timer callback taken,
   so that every size of scene meets the memoised scene values. *)
InitScene ==
  /\ Init
  /\ def = 1

NextScene ==
  \/ \E els \in AllSceneIds : ChangeElements(els)
  \/ \E z \in Zooms : HostZoom(z)
  \/ ToggleMinimap
  \/ Tick

SpecScene == InitScene /\ [][NextScene]_vars

(* The action: the shortcut, the menu item and the form factor, on either
   platform, while the host scrolls, zooms and changes the elements. *)
InitAction ==
  /\ def = 1
  /\ elements = EmptyScene
  /\ \E win \in WindowSizes, show \in BOOLEAN, pos \in MinimapPositions :
       appState = [scrollX |-> Q(0), scrollY |-> Q(0), zoom |-> 1,
                   width |-> win[1], height |-> win[2], showMinimap |-> show,
                   minimapPosition |-> pos]
  /\ seen = appState
  /\ renderPending = FALSE
  /\ minimapCanvas = NullCanvas
  /\ debounceTimerRef = IF effectArms(def, elements, appState)
                        THEN debouncedUpdate(elements) ELSE NoTimer
  /\ otherTimers = {}
  /\ inFlight = <<>>
  /\ app \in {[editorInterface |-> [formFactor |-> ff]] : ff \in FormFactors}
  /\ isDarwin \in BOOLEAN
  /\ event = NoEvent
  /\ isDraggingRef = FALSE
  /\ isDraggingMinimapRef = FALSE
  /\ dragStartRef = [x |-> 0, y |-> 0]
  /\ listeners = 0
  /\ sinceChange = DEBOUNCE_DELAY
  /\ dragActive = FALSE
  /\ handleAnchor = [x |-> 0, y |-> 0]

NextAction ==
  \/ \E e \in KeyEvents : KeyDown(e)
  \/ MenuToggle
  \/ \E ff \in FormFactors : FormFactorChange(ff)
  \/ \E els \in SceneIds : ChangeElements(els)
  \/ \E p \in HostScrolls : HostScroll(p)
  \/ \E z \in Zooms : HostZoom(z)

SpecAction == InitAction /\ [][NextAction]_vars

(* The regeneration under a fair schedule: the clock advances, a timer that is
   due runs its callback, and an awaited export settles. *)
NextLive ==
  \/ \E els \in SceneIds : ChangeElements(els)
  \/ \E z \in Zooms : HostZoom(z)
  \/ ToggleMinimap
  \/ OtherAppStateChange
  \/ Tick
  \/ TimerFire
  \/ \E i \in 1..MaxInFlight, o \in ExportOutcomes : ExportResolve(i, o)

Settles == \E i \in 1..MaxInFlight, o \in ExportOutcomes : ExportResolve(i, o)

InitLive ==
  /\ Init
  /\ def = 1

SpecLive ==
  /\ InitLive
  /\ [][NextLive]_vars
  /\ WF_vars(Tick)
  /\ WF_vars(TimerFire)
  /\ WF_vars(Settles)

----------------------------------------------------------------------------
(* Properties                                                              *)

PositiveSize(els) ==
  ~sceneBounds(els).null /\ sceneBounds(els).width > 0 /\ sceneBounds(els).height > 0

Degenerate(els) ==
  length(els) = 0 \/ sceneBounds(els).width <= 0 \/ sceneBounds(els).height <= 0

\* the viewport's center in scene coordinates
viewportCenter(as) ==
  [x |-> RAdd(RNeg(as.scrollX), RDiv(RDiv(Q(as.width), Q(as.zoom)), Q(2))),
   y |-> RAdd(RNeg(as.scrollY), RDiv(RDiv(Q(as.height), Q(as.zoom)), Q(2)))]

\* the center of the scene's bounding box
boundsCenter(els) ==
  [x |-> RDiv(Q(sceneBounds(els).minX + sceneBounds(els).maxX), Q(2)),
   y |-> RDiv(Q(sceneBounds(els).minY + sceneBounds(els).maxY), Q(2))]

\* C1: for every non-empty element collection, also one whose bounding box has
\* zero width or height, the computed minimap scale is at most 1.
C1_ScaleAtMostOne ==
  length(elements) > 0 => RLe(minimapScale(elements), Q(1))

\* C1 witness: a collection of width 0 (150 / 0 is Infinity) with its scale capped at 1
C1_ZeroWidthCapped ==
  /\ length(elements) > 0
  /\ sceneBounds(elements).width = 0
  /\ minimapScale(elements) = Q(1)

\* C2: while the element collection is empty the widget renders nothing,
\* whatever the timer, the exports in flight and the bitmap are.
C2_EmptyRendersNothing ==
  length(elements) = 0 => ~Shown

\* C3: with a bounding box of positive width and height and the preview bitmap
\* shown, a pointer-down at the center (75, 75) of the preview canvas sets the
\* scroll so that the viewport's center is the center of the bounding box.
C3_CenterClickRecenters ==
  [][(CanvasMouseDown(<<75, 75>>) /\ PositiveSize(elements) /\ ~minimapCanvas.null)
       => viewportCenter(appState') = boundsCenter(elements)]_vars

\* scene points the round trip is tried on, besides the viewport's corners
ScenePoints == {<<Q(0), Q(0)>>, <<Q(-100), Q(600)>>, <<Norm(1, 2), Q(37)>>}

RoundTrips(px, py) ==
  LET drawn == drawnAt(def, elements, minimapCanvas, px, py)
  IN  clickToScene(elements, minimapCanvas, drawn.x, drawn.y) = [x |-> px, y |-> py]

\* C4: with a bounding box of positive size, a scene point mapped forward to
\* where the preview draws it (scaled, shifted by the offset the bitmap is drawn
\* at) and then back by the click-to-scene mapping is the same scene point.
C4_RoundTrip ==
  (PositiveSize(elements) /\ ~minimapCanvas.null) =>
     /\ \A pt \in ScenePoints : RoundTrips(pt[1], pt[2])
     /\ RoundTrips(RNeg(appState.scrollX), RNeg(appState.scrollY))
     /\ RoundTrips(RAdd(RNeg(appState.scrollX), RDiv(Q(appState.width), Q(appState.zoom))),
                   RAdd(RNeg(appState.scrollY), RDiv(Q(appState.height), Q(appState.zoom))))

\* C4 witness: a bitmap narrower than the preview canvas, drawn at an offset,
\* with the viewport dragged away from the origin
C4_OffsetBitmapScrolled ==
  /\ PositiveSize(elements)
  /\ ~minimapCanvas.null
  /\ RLt(Q(0), renderOffset(def, minimapCanvas).x)
  /\ appState.scrollX # Q(0)
  /\ isDraggingRef

\* C5: every pointer-down on the preview that writes a scroll writes
\* -(scenePoint - (window size / zoom) / 2) on both axes, where scenePoint is
\* (click - renderOffset) / scale + sceneBoundsMin.
C5_ClickToScroll ==
  [][\A p \in CanvasPoints :
       (CanvasMouseDown(p) /\ ~mouseDownReturns(elements, minimapCanvas)) =>
         LET off == renderOffset(def, minimapCanvas)
             sb  == sceneBounds(elements)
             sx  == RAdd(RDiv(RSub(Q(p[1]), off.x), minimapScale(elements)), Q(sb.minX))
             sy  == RAdd(RDiv(RSub(Q(p[2]), off.y), minimapScale(elements)), Q(sb.minY))
         IN  /\ appState'.scrollX =
                  RNeg(RSub(sx, RDiv(RDiv(Q(appState.width), Q(appState.zoom)), Q(2))))
             /\ appState'.scrollY =
                  RNeg(RSub(sy, RDiv(RDiv(Q(appState.height), Q(appState.zoom)), Q(2))))]_vars

\* C5 witness: the state after a pointer-down at the preview's lower left
\* corner, zoomed in, on a bitmap drawn at an offset
C5_CornerClicked ==
  /\ isDraggingRef /\ dragActive /\ ~renderPending
  /\ dragStartRef = Client(<<0, 150>>)
  /\ appState.zoom = 2
  /\ ~minimapCanvas.null
  /\ RLt(Q(0), clickOffset(minimapCanvas).x)
  /\ appState.scrollX =
       clickToScroll(elements, appState, minimapCanvas, Q(0), Q(150)).x

\* C6: when the element collection is empty or its bounding box has a
\* non-positive width or height, the widget renders nothing, and the
\* updateMinimap that runs for such a collection starts no export and leaves
\* the bitmap null.
C6_DegenerateSuppressed ==
  [][/\ Degenerate(elements') => ~Shown'
     /\ (TimerFire /\ Degenerate(debounceTimerRef.els)) =>
          (inFlight' = inFlight /\ minimapCanvas'.null)]_vars

\* C7: a pointer-move on the preview changes the scroll only during a drag,
\* which begins at a pointer-down on the preview and ends at the next
\* pointer-up or pointer-leave.
C7_MoveOnlyWhileDragging ==
  [][(~dragActive /\ \E p \in CanvasPoints : CanvasMouseMove(p)) =>
       (appState'.scrollX = appState.scrollX /\ appState'.scrollY = appState.scrollY)]_vars

\* C8: during a drag on the preview, a handled pointer-move sets the scroll to
\* the scroll the handler reads minus (position - previous position) / scale and
\* records its position; the previous position is the one recorded by the
\* pointer-down or by the last handled pointer-move.
C8_DragStep ==
  [][\A p \in CanvasPoints :
       /\ (CanvasMouseDown(p) /\ ~mouseDownReturns(elements, minimapCanvas)) =>
            dragStartRef' = Client(p)
       /\ (CanvasMouseMove(p) /\ dragActive
             /\ ~mouseMoveReturns(isDraggingRef, elements, minimapCanvas)) =>
            /\ appState'.scrollX =
                 RSub(seen.scrollX,
                      RDiv(Q(Client(p).x - dragStartRef.x), minimapScale(elements)))
            /\ appState'.scrollY =
                 RSub(seen.scrollY,
                      RDiv(Q(Client(p).y - dragStartRef.y), minimapScale(elements)))
            /\ dragStartRef' = Client(p)]_vars

\* C8 witness: a drag from the preview's center to its lower left corner on a
\* scene scaled down by 4, the move waiting for its render
C8_DraggedToCorner ==
  /\ dragActive /\ isDraggingRef /\ renderPending
  /\ dragStartRef = Client(<<0, 150>>)
  /\ minimapScale(elements) = Norm(1, 4)
  /\ appState.scrollX = RAdd(seen.scrollX, Q(300))
  /\ appState.scrollY = RSub(seen.scrollY, Q(300))

\* C9: a drag of the header handle changes minimapPosition only and never the
\* scroll, and the position it sets is a function of the handle's pointer-down
\* position relative to the widget then and of the current pointer position,
\* whatever pointer events the preview canvas saw in between.
C9_HandleDragIndependent ==
  [][\A w \in WindowPoints :
       GlobalMouseMove(w) =>
         /\ appState'.scrollX = appState.scrollX
         /\ appState'.scrollY = appState.scrollY
         /\ appState'.minimapPosition =
              handleGlobalMouseMove(appState, handleAnchor, [x |-> w[1], y |-> w[2]])]_vars

\* C10: a change of the elements, the scroll or the zoom that leaves the minimap
\* visible and non-empty re-arms the 300 ms timer with the render that delivers
\* it, and while the minimap is visible and non-empty an export starts only
\* when 300 ms have passed since the last such change.
C10_Debounce ==
  [][/\ (Viewport(elements', appState') # Viewport(elements, appState)
           /\ appState'.showMinimap /\ length(elements') > 0) =>
          \/ renderPending'
          \/ debounceTimerRef' =
               [pending |-> TRUE, remaining |-> DEBOUNCE_DELAY, els |-> elements']
     /\ (Len(inFlight') > Len(inFlight) /\ appState.showMinimap /\ length(elements) > 0) =>
          sinceChange >= DEBOUNCE_DELAY]_vars

\* C10 witness: an export started for the current elements after 300 quiet ms
C10_ExportAfterQuiet ==
  /\ appState.showMinimap /\ length(elements) > 0
  /\ Len(inFlight) > 0 /\ inFlight[Len(inFlight)].els = elements
  /\ ~debounceTimerRef.pending
  /\ sinceChange >= DEBOUNCE_DELAY

\* the number of debounce timers pending
NumPending == (IF debounceTimerRef.pending THEN 1 ELSE 0) + Cardinality(otherTimers)

\* the export of a closure over els has failed: it threw, gave no canvas, or
\* a canvas whose width or height is not positive
exportFailed(d, els, outcome) ==
  LET c == exportToCanvas(d, els, outcome)
  IN  outcome = "throw" \/ c.null \/ ~RLt(Q(0), c.width) \/ ~RLt(Q(0), c.height)

\* C11: at most one debounce timer is pending at any time, arming a timer
\* cancels the one armed before, and when the timer of a burst of changes
\* fires no other timer is left to start a second regeneration.
C11_OneTimerPending ==
  [][/\ NumPending' <= 1
     /\ TimerFire => NumPending' = 0]_vars

\* C11 witness: a timer armed afresh less than 300 ms after the change that
\* armed the previous one, which was still pending and is gone
C11_Rearmed ==
  /\ length(elements) > 0
  /\ debounceTimerRef.pending
  /\ debounceTimerRef.remaining = DEBOUNCE_DELAY
  /\ 0 < sinceChange /\ sinceChange < DEBOUNCE_DELAY
  /\ otherTimers = {}

\* C12: when the export throws, gives no canvas or a canvas of non-positive
\* width or height, the bitmap is set to null, the widget renders nothing and
\* the host's elements and application state are unchanged.
C12_FailureContained ==
  [][\A i \in 1..MaxInFlight, o \in ExportOutcomes :
       (ExportResolve(i, o) /\ exportFailed(def, inFlight[i].els, o)) =>
         /\ minimapCanvas'.null
         /\ ~Shown'
         /\ appState' = appState
         /\ elements' = elements]_vars

\* C13: a failed regeneration arms no timer and starts no export, and an
\* export starts only when a debounce timer fires.
C13_NoRetry ==
  [][/\ \A i \in 1..MaxInFlight, o \in ExportOutcomes :
          (ExportResolve(i, o) /\ exportFailed(def, inFlight[i].els, o)) =>
            /\ debounceTimerRef' = debounceTimerRef
            /\ otherTimers' = otherTimers
            /\ Len(inFlight') = Len(inFlight) - 1
     /\ Len(inFlight') > Len(inFlight) => TimerFire]_vars

\* C13 witness: the minimap visible over a scene of positive size with the
\* timer fired, the export resolved and no bitmap: the regeneration has failed
\* and nothing is pending
C13_FailedAndQuiet ==
  /\ def = 1 /\ appState.showMinimap /\ ~Degenerate(elements)
  /\ minimapCanvas.null
  /\ NumPending = 0
  /\ inFlight = <<>>

\* C15: whenever showMinimap is false the widget renders nothing, whatever
\* the elements and the bitmap are.
C15_HiddenRendersNothing ==
  ~appState.showMinimap => ~Shown

\* C15 witness: hidden while there are elements and a bitmap (an export that
\* was in flight when the minimap was switched off has resolved since)
C15_HiddenWithBitmap ==
  /\ ~appState.showMinimap
  /\ def = 1
  /\ length(elements) > 0
  /\ ~minimapCanvas.null

\* C17: the viewport indicator is null when there is no bitmap or no scene
\* bounds; otherwise its origin is ((-scrollX - minX) * scale, (-scrollY - minY)
\* * scale) and its size ((width / zoom) * scale, (height / zoom) * scale).
C17_ViewportRect ==
  LET r  == viewportRect(elements, appState, minimapCanvas)
      sb == sceneBounds(elements)
      sc == minimapScale(elements)
  IN  IF minimapCanvas.null \/ length(elements) = 0
      THEN r.null
      ELSE /\ ~r.null
           /\ r.x = RMul(RSub(RNeg(appState.scrollX), Q(sb.minX)), sc)
           /\ r.y = RMul(RSub(RNeg(appState.scrollY), Q(sb.minY)), sc)
           /\ r.width = RMul(RDiv(Q(appState.width), Q(appState.zoom)), sc)
           /\ r.height = RMul(RDiv(Q(appState.height), Q(appState.zoom)), sc)

\* C17 witness: an indicator for a scrolled, zoomed viewport over a scene whose
\* origin is not the scene's minimum
C17_IndicatorShown ==
  /\ ~viewportRect(elements, appState, minimapCanvas).null
  /\ sceneBounds(elements).minX # 0
  /\ appState.scrollX # Q(0) /\ appState.zoom = 2
  /\ minimapScale(elements) # Q(1)

\* C16: the scale is min(150 / sceneWidth, 150 / sceneHeight, 1) when scene
\* bounds exist and 1 when there are none; it is exactly 1 if and only if both
\* the scene width and the scene height are at most 150.
C16_Scale ==
  LET sb == sceneBounds(elements)
      s  == minimapScale(elements)
      byWidth  == RDiv(Q(MINIMAP_SIZE), Q(sb.width))
      byHeight == RDiv(Q(MINIMAP_SIZE), Q(sb.height))
  IN  IF sb.null THEN s = Q(1)
      ELSE /\ s \in {byWidth, byHeight, Q(1)}
           /\ RLe(s, byWidth) /\ RLe(s, byHeight) /\ RLe(s, Q(1))
           /\ s = Q(1) <=> (sb.width <= MINIMAP_SIZE /\ sb.height <= MINIMAP_SIZE)

\* C16 witness: a scene one pixel taller than the minimap and exactly as wide
C16_JustTooTall ==
  /\ ~sceneBounds(elements).null
  /\ sceneBounds(elements).width = MINIMAP_SIZE
  /\ sceneBounds(elements).height = MINIMAP_SIZE + 1
  /\ minimapScale(elements) = RDiv(Q(MINIMAP_SIZE), Q(MINIMAP_SIZE + 1))

\* the appState of fr and the appState of to agree in every field but showMinimap
SameButShowMinimap(fr, to) ==
  /\ DOMAIN to = DOMAIN fr
  /\ \A f \in DOMAIN fr \ {"showMinimap"} : to[f] = fr[f]

\* a step in which toggleMinimap is performed
Toggled ==
  \/ ToggleMinimap
  \/ MenuToggle
  \/ \E e \in KeyEvents : KeyDown(e) /\ keyTest(e)

\* C14: performing toggleMinimap returns an appState whose showMinimap is the
\* negation of the previous value and whose every other field (minimapPosition,
\* scroll, zoom among them) is the previous one; it returns no change to the
\* elements.
C14_ToggleFrame ==
  [][Toggled =>
       /\ appState' = perform(elements, appState).appState
       /\ appState'.showMinimap = ~appState.showMinimap
       /\ SameButShowMinimap(appState, appState')
       /\ "elements" \notin DOMAIN perform(elements, appState)
       /\ elements' = elements]_vars

\* C14 witness: the shortcut has hidden the minimap of a scrolled, zoomed
\* viewport whose widget had been moved
C14_ToggledAfterScroll ==
  /\ keyTest(event)
  /\ ~appState.showMinimap
  /\ appState.scrollX # Q(0) /\ appState.zoom = 2
  /\ appState.minimapPosition # [x |-> 10, y |-> 10]
  /\ length(elements) > 0

\* C18: performing toggleMinimap twice in a row gives back the appState before
\* the first toggle, from either value of showMinimap.
C18_Involution ==
  perform(elements, perform(elements, appState).appState).appState = appState

\* C18 witness: the shortcut has shown the minimap, and the next toggle hides it
C18_ShownByShortcut ==
  /\ keyTest(event)
  /\ appState.showMinimap
  /\ appState.scrollX # Q(0)
  /\ ~perform(elements, appState).appState.showMinimap

\* the platform's Ctrl/Cmd modifier is held in e: Cmd on macOS, Ctrl elsewhere
CtrlOrCmdHeld(e) == IF isDarwin THEN e.metaKey ELSE e.ctrlKey

\* C19: the shortcut matches a key event if and only if its code is the M key
\* and none of Ctrl/Cmd, Alt and Shift is held; a key press toggles the minimap
\* exactly then.
C19_KeyTest ==
  [][\A e \in KeyEvents :
       KeyDown(e) =>
         LET plainM == /\ e.code = "KeyM"
                       /\ ~CtrlOrCmdHeld(e) /\ ~e.altKey /\ ~e.shiftKey
         IN  /\ keyTest(e) <=> plainM
             /\ (appState'.showMinimap # appState.showMinimap) <=> plainM]_vars

\* C19 witness: off macOS, M pressed with the other platform's modifier held
\* has matched
C19_MatchedWithMeta ==
  /\ ~isDarwin
  /\ event.code = "KeyM" /\ event.metaKey
  /\ keyTest(event)

\* C20: the action is available if and only if the form factor is not "phone",
\* whatever the elements and the appState (showMinimap included) are; the menu
\* item can be taken exactly then.
C20_Available ==
  LET notPhone == app.editorInterface.formFactor # "phone"
  IN  /\ \A els \in AllSceneIds, show \in BOOLEAN, z \in Zooms :
           predicate(els, [appState EXCEPT !.showMinimap = show, !.zoom = z], app)
             <=> notPhone
      /\ (ENABLED MenuToggle) <=> (notPhone /\ ~renderPending)

\* C20 witness: on a phone, with elements and the minimap shown, the action is
\* not available
C20_PhoneWithMinimap ==
  /\ app.editorInterface.formFactor = "phone"
  /\ appState.showMinimap
  /\ length(elements) > 0
  /\ ~predicate(elements, appState, app)

\* C21: while the minimap is hidden or the element collection is empty the
\* preview bitmap is null: it is cleared with the render that hides or empties,
\* and no timer armed earlier and no export started earlier repopulates it.
C21_ClearedStaysNull ==
  (~appState.showMinimap \/ length(elements) = 0) => minimapCanvas.null

\* the element collection of the regeneration started last: debounceTimerRef
\* keeps the closure of the timer that fired last
newestRegeneration == debounceTimerRef.els

\* C22: when the bitmap held is the one of the regeneration started last and an
\* export started before it, for other elements, is still in flight, the
\* resolution of that older export leaves the newer bitmap in place: after both
\* have completed the bitmap is the newer collection's, whatever the order.
C22_NewerBitmapWins ==
  [][\A o \in ExportOutcomes :
       (/\ ExportResolve(1, o)
        /\ Len(inFlight) = 1
        /\ ~debounceTimerRef.pending
        /\ ~minimapCanvas.null
        /\ minimapCanvas.els = newestRegeneration
        /\ inFlight[1].els # newestRegeneration)
       => (~minimapCanvas'.null /\ minimapCanvas'.els = newestRegeneration)]_vars

\* a step in which neither the elements nor the application state change
QuietStep ==
  /\ UNCHANGED <<elements, appState>>
  /\ ~OtherAppStateChange

\* the updateMinimap of the latest render has run up to its export
LatestExportRan ==
  /\ ~debounceTimerRef.pending
  /\ debounceTimerRef.els = elements

C24_OtherChangeKeepsTimer ==
  [][OtherAppStateChange =>
       (debounceTimerRef' = debounceTimerRef /\ otherTimers' = otherTimers)]_vars

\* C25: for every scene whose bounding box has positive width and height, the
\* bitmap dimensions asked of the export, max(1, width * scale) and
\* max(1, height * scale), are at least 1 and at most 150, so that
\* (150 - dimension) / 2 is not negative.
C25_DimensionsWithinPreview ==
  PositiveSize(elements) =>
    LET d == getDimensionsDouble(elements)
    IN  /\ ~DoubleLt(d.width, Double(1))
        /\ ~DoubleLt(Double(MINIMAP_SIZE), d.width)
        /\ ~DoubleLt(d.height, Double(1))
        /\ ~DoubleLt(Double(MINIMAP_SIZE), d.height)

\* C26: over a drag on the preview the scroll changes in total by
\* -(last pointer position - pointer-down position) / scale.  dragStartRef is
\* the pointer-down position at first and the previous position after each
\* move, so the total telescopes exactly when every handled move changes the
\* host's scroll, the updates of earlier moves applied, by
\* -(position - previous position) / scale, also while an earlier move's update
\* has not reached the state the handler reads.
C26_DragTotal ==
  [][\A p \in CanvasPoints :
       (CanvasMouseMove(p) /\ dragActive
          /\ ~mouseMoveReturns(isDraggingRef, elements, minimapCanvas)) =>
         /\ appState'.scrollX =
              RSub(appState.scrollX,
                   RDiv(Q(Client(p).x - dragStartRef.x), minimapScale(elements)))
         /\ appState'.scrollY =
              RSub(appState.scrollY,
                   RDiv(Q(Client(p).y - dragStartRef.y), minimapScale(elements)))]_vars

\* the document's mousemove listener of a handle drag runs with a pointer-move
HandleDragging == listeners > 0 /\ isDraggingMinimapRef

\* C27: pointer-down and pointer-move on the preview canvas write only scrollX
\* and scrollY to the host state: zoom, showMinimap, minimapPosition, the
\* window's size and the elements are as before.  (minimapPosition changes with
\* a pointer-move only by the document's listener of a handle drag in progress,
\* which the same event reaches.)
C27_OnlyScrollWritten ==
  [][\A p \in CanvasPoints :
       (CanvasMouseDown(p) \/ CanvasMouseMove(p)) =>
         /\ elements' = elements
         /\ DOMAIN appState' = DOMAIN appState
         /\ \A f \in DOMAIN appState \ {"scrollX", "scrollY", "minimapPosition"} :
              appState'[f] = appState[f]
         /\ \/ appState'.minimapPosition = appState.minimapPosition
            \/ /\ HandleDragging
               /\ CanvasMouseMove(p)
               /\ appState'.minimapPosition =
                    handleGlobalMouseMove(appState, dragStartRef', Client(p))]_vars

\* C27 witness: a drag on the preview has moved the scroll of a zoomed
\* viewport, the widget away from its first place
C27_ScrollDragged ==
  /\ dragActive /\ isDraggingRef /\ renderPending
  /\ appState.scrollX # seen.scrollX
  /\ appState.zoom = 2
  /\ appState.minimapPosition = [x |-> 10, y |-> 390]

\* a widget position is within the window win, 10 pixels from its edges
WithinWindow(pos, win) ==
  /\ 10 <= pos.x /\ pos.x <= IMax(10, win[1] - 210)
  /\ 10 <= pos.y /\ pos.y <= IMax(10, win[2] - 210)

\* window sizes the clamp is tried on besides the host's, some below 220 pixels
MoreWindowSizes == {<<100, 100>>, <<219, 220>>, <<221, 219>>, <<1000, 800>>}

\* C28: after every pointer-move of a handle drag minimapPosition.x is at least
\* 10 and at most max(10, window width - 210), and minimapPosition.y at least
\* 10 and at most max(10, window height - 210), for every pointer position and
\* window size, windows smaller than 220 pixels included.
C28_PositionClamped ==
  [][\A w \in WindowPoints :
       (GlobalMouseMove(w) \/ (HandleDragging /\ \E p \in CanvasPoints : CanvasMouseMove(p))) =>
         /\ WithinWindow(appState'.minimapPosition, <<appState'.width, appState'.height>>)
         /\ \A win \in MoreWindowSizes :
              WithinWindow(handleGlobalMouseMove(
                             [appState EXCEPT !.width = win[1], !.height = win[2]],
                             dragStartRef, [x |-> w[1], y |-> w[2]]), win)]_vars

\* C28 witness: the handle dragged far beyond the window's lower right corner,
\* the widget held at the lower bound of x and the upper bound of y
C28_HeldAtEdge ==
  /\ HandleDragging
  /\ ~renderPending
  /\ appState.minimapPosition = [x |-> 10, y |-> appState.height - 210]
  /\ appState.width < 220

\* C29: every pointer-down on the header that starts a handle drag registers
\* one pair of document listeners; the next document mouseup ends the drag and
\* removes every pair registered; and while no pair is registered nothing, a
\* pointer-move included, changes minimapPosition.
C29_DragListenersRemoved ==
  [][/\ (\E h \in HeaderPoints : HeaderMouseDown(h)) =>
          (listeners' = listeners + 1 /\ isDraggingMinimapRef')
     /\ ((GlobalMouseUp \/ CanvasMouseUp) /\ listeners > 0) =>
          (listeners' = 0 /\ ~isDraggingMinimapRef')
     /\ listeners = 0 =>
          appState'.minimapPosition = appState.minimapPosition]_vars

\* C29 witness: a handle drag has moved the widget and ended with a mouseup,
\* and the pointer is down on the preview again
C29_DragEnded ==
  /\ listeners = 0
  /\ ~isDraggingMinimapRef
  /\ appState.minimapPosition = [x |-> 10, y |-> 390]
  /\ handleAnchor = [x |-> 30, y |-> 12]
  /\ dragActive /\ isDraggingRef

\* C30: whenever a pointer-down on the preview is mapped to scene coordinates,
\* the bitmap whose size gives the render offset was generated from the scene
\* bounds and scale the mapping uses: no stale bitmap maps a click.
C30_ClickMappedWithFreshBitmap ==
  [][\A p \in CanvasPoints :
       (CanvasMouseDown(p) /\ def = 1 /\ ~mouseDownReturns(elements, minimapCanvas)) =>
         /\ sceneBounds(minimapCanvas.els) = sceneBounds(elements)
         /\ minimapScale(minimapCanvas.els) = minimapScale(elements)]_vars

====
